---------------------------- MODULE Spec2Model ----------------------------
(***************************************************************************)
(* Model of calendar_report.py: the work-hours interval accounting of the  *)
(* weekly calendar usage report.                                           *)
(*                                                                         *)
(* Time.  A timestamp is a number of half-hour ticks since Monday 00:00 of *)
(* the week under analysis (Pacific wall-clock time, as produced by        *)
(* convert_to_pacific).  Date d is the d-th day after that Monday, so      *)
(* date.weekday() is d % 7 with Monday = 0.                                *)
(*                                                                         *)
(* Hours.  Every hour quantity (a Python float in the source) is kept in   *)
(* hundredths of an hour; a tick is 50 hundredths.  All quantities the     *)
(* program derives from tick-aligned events are multiples of 0.5 and so    *)
(* exact in binary floating point.                                         *)
(***************************************************************************)
EXTENDS Integers, Sequences, FiniteSets, TLC

VARIABLES
    pc,                         \* position in the run
    items,                      \* calendar items the fetch loop has iterated
    events,                     \* the list _fetch_events_for_range builds
    budgets,                    \* BUDGETS as seen by the report rows
    holiday_dates,              \* build_report locals, below
    holiday_hours_reduction,
    non_holiday_events,
    durations,
    intervals_by_day,
    busy_hours_total,
    adjusted_total_work_hours,
    free_time,
    warn_msg,                   \* Warning column of the rows of `durations`
    zero_categories,            \* Warning column of the zero-hour rows
    output,                     \* what the run printed: "", "notice" or "report"
    start_pt, end_pt,           \* arguments of calculate_work_hours_overlap
    work_hours_duration,        \* its result
    categories_str,             \* a raw category label
    category,                   \* the result of categorize_event on it
    is_holiday                  \* the result of is_all_day_holiday

vars == <<pc, items, events, budgets, holiday_dates, holiday_hours_reduction,
          non_holiday_events, durations, intervals_by_day, busy_hours_total,
          adjusted_total_work_hours, free_time, warn_msg, zero_categories,
          output, start_pt, end_pt, work_hours_duration,
          categories_str, category, is_holiday>>

-----------------------------------------------------------------------------
(* Bounds of the model *)

\* largest level (min, max, warn), in hundredths, of an arbitrary budget
MaxLevel == 3

\* last date (0 = Monday) of the grid the overlap computation is explored on
MaxDate == 6
\* calendar items the fetch loop iterates in one run
MaxItems == 3
\* clipped intervals handed to the merge step when it is explored on its own
MaxIntervals == 3
\* last tick offset, from the start of the work window, of those intervals
MaxOffset == 3
\* atoms of a raw label when the label operators are explored on their own
MaxLabelLen == 4
\* last date of the start and end times is_all_day_holiday is explored on
MaxHolidayDate == 2

-----------------------------------------------------------------------------
(* Time and hour helpers *)

\* datetime.datetime.combine(date, datetime.time(hour, minute)), minute in
\* {0, 30}: 48 ticks a day, 2 ticks an hour
At(d, hour, minute) == d * 48 + hour * 2 + (minute \div 30)

\* datetime.date()
Date(t) == t \div 48

\* .hour == 0 and .minute == 0 and .second == 0
IsMidnight(t) == t % 48 = 0

\* (b - a).total_seconds() / 3600.0, in hundredths of an hour
HoursBetween(a, b) == (b - a) * 50

\* an integer number of hours, in hundredths of an hour
WholeHours(h) == h * 100

Max(a, b) == IF a >= b THEN a ELSE b
Min(a, b) == IF a <= b THEN a ELSE b

-----------------------------------------------------------------------------
(* Configuration *)

\* date.weekday()
Weekday(d) == d % 7

DAILY_WORK_HOURS == [wd \in 0..6 |->
    CASE wd = 0 -> 8 [] wd = 1 -> 8 [] wd = 2 -> 8
      [] wd = 3 -> 9 [] wd = 4 -> 9 [] wd = 5 -> 0 [] wd = 6 -> 0]

DAILY_START_TIMES == [wd \in 0..6 |->
    CASE wd = 0 -> 9 [] wd = 1 -> 9 [] wd = 2 -> 9
      [] wd = 3 -> 8 [] wd = 4 -> 8 [] wd = 5 -> 9 [] wd = 6 -> 9]

RECURSIVE SumWorkHours(_)
SumWorkHours(wds) ==
    IF wds = {} THEN 0
    ELSE LET wd == CHOOSE x \in wds : TRUE
         IN  DAILY_WORK_HOURS[wd] + SumWorkHours(wds \ {wd})

\* sum(hours for day, hours in DAILY_WORK_HOURS.items() if day < 5)
TOTAL_WORK_HOURS == SumWorkHours({wd \in 0..6 : wd < 5})

\* work_start / work_end of a date
WorkStart(d) == At(d, DAILY_START_TIMES[Weekday(d)], 0)
WorkEnd(d) ==
    At(d, DAILY_START_TIMES[Weekday(d)] + DAILY_WORK_HOURS[Weekday(d)], 0)

-----------------------------------------------------------------------------
(* calculate_work_hours_overlap *)

\* a day loop that stops one date early
DayLoopRunsExclusive(current_date, end_date) == current_date < end_date

\* while current_date <= end_date
DayLoopRuns(current_date, end_date) == current_date <= end_date

RECURSIVE OverlapLoop(_, _, _, _)
OverlapLoop(current_date, end_date, s, e) ==
    IF ~DayLoopRuns(current_date, end_date) THEN 0
    ELSE IF DAILY_WORK_HOURS[Weekday(current_date)] = 0
         THEN OverlapLoop(current_date + 1, end_date, s, e)
         ELSE LET event_start_today == Max(s, WorkStart(current_date))
                  event_end_today == Min(e, WorkEnd(current_date))
                  daily_overlap ==
                      IF event_start_today < event_end_today
                      THEN HoursBetween(event_start_today, event_end_today)
                      ELSE 0
              IN  daily_overlap + OverlapLoop(current_date + 1, end_date, s, e)

calculate_work_hours_overlap(s, e) ==
    Max(0, OverlapLoop(Date(s), Date(e), s, e))

-----------------------------------------------------------------------------
(* Category labels *)

(* A raw label (item.Categories) is a sequence of atoms: "," is the comma,   *)
(* " " is a run of whitespace, and every other atom is a piece of text with  *)
(* no comma and no whitespace at either end.  A stripped token is one of the *)
(* names below only when it is the single atom of that name: no two atoms of *)
(* the alphabet concatenate to a known name.                                 *)

HOLIDAY == "Holiday/Vacation"
DEFAULT_CATEGORY == "Work Meeting"

KNOWN_CATEGORIES ==
    {"Focus Time", "Communication", "Unavailable", "Collaboration", HOLIDAY}

RECURSIVE FirstToken(_)
\* str.split(",")[0]
FirstToken(label) ==
    IF label = <<>> \/ Head(label) = "," THEN <<>>
    ELSE <<Head(label)>> \o FirstToken(Tail(label))

RECURSIVE LStrip(_)
LStrip(tok) ==
    IF tok # <<>> /\ Head(tok) = " " THEN LStrip(Tail(tok)) ELSE tok

RECURSIVE RStrip(_)
RStrip(tok) ==
    IF tok # <<>> /\ tok[Len(tok)] = " "
    THEN RStrip(SubSeq(tok, 1, Len(tok) - 1))
    ELSE tok

\* str.strip()
Strip(tok) == RStrip(LStrip(tok))

\* the text of a stripped token that is a single atom; any other token is
\* text that equals no category name
TokenText(tok) == IF Len(tok) = 1 THEN tok[1] ELSE "?"

\* categories_str.split(',')[0].strip() if categories_str else ''
FirstCat(label) ==
    IF label = <<>> THEN "" ELSE
    LET tok == Strip(FirstToken(label))
    IN  IF tok = <<>> THEN "" ELSE TokenText(tok)

\* a categorization that looks the whole stripped label up, without the split
categorize_event_whole_label(label) ==
    IF label = <<>> \/ Strip(label) = <<>>
    THEN DEFAULT_CATEGORY
    ELSE LET whole == TokenText(Strip(label))
         IN  IF whole \notin KNOWN_CATEGORIES THEN DEFAULT_CATEGORY ELSE whole

categorize_event(label) ==
    IF label = <<>> \/ Strip(label) = <<>>
    THEN DEFAULT_CATEGORY
    ELSE LET token == FirstCat(label)
         IN  IF token \notin KNOWN_CATEGORIES THEN DEFAULT_CATEGORY
             ELSE token

\* a holiday test that does not look at the end time of day
is_all_day_holiday_any_end(event) ==
    IF event.categories = <<>> THEN FALSE
    ELSE IF FirstCat(event.categories) # HOLIDAY THEN FALSE
    ELSE LET start_is_midnight == IsMidnight(event.start)
             duration_hours == HoursBetween(event.start, event.end)
             is_full_day == duration_hours >= WholeHours(24)
         IN  start_is_midnight /\ is_full_day

is_all_day_holiday(event) ==
    IF event.categories = <<>> THEN FALSE
    ELSE IF FirstCat(event.categories) # HOLIDAY THEN FALSE
    ELSE LET start_is_midnight == IsMidnight(event.start)
             end_is_midnight == IsMidnight(event.end)
             duration_hours == HoursBetween(event.start, event.end)
             is_full_day == duration_hours >= WholeHours(24)
         IN  start_is_midnight /\ end_is_midnight /\ is_full_day

-----------------------------------------------------------------------------
(* _fetch_events_for_range: the body of the loop over the calendar items *)

(* An item carries the COM properties the loop reads.  Start and End are    *)
(* Pacific wall-clock ticks: convert_to_pacific rebuilds both datetimes     *)
(* from their year..second fields and localizes them, which leaves the      *)
(* wall-clock value of a tick-aligned time as it is.                        *)

\* include_event = work_hours_duration > 0 or first_cat == "Holiday/Vacation"
IncludeEvent(wh, first_cat) == wh > 0 \/ first_cat = HOLIDAY

\* the events list after the loop body has run on one more item
FetchOne(evs, item) ==
    IF item.IsCancelled THEN evs
    ELSE LET first_cat == FirstCat(item.Categories)
         IN  IF item.BusyStatus = 0 /\ first_cat # HOLIDAY THEN evs
             ELSE LET wh == calculate_work_hours_overlap(item.Start, item.End)
                  IN  IF IncludeEvent(wh, first_cat)
                      THEN Append(evs, [start |-> item.Start,
                                        end |-> item.End,
                                        duration_hours |-> wh,
                                        categories |-> item.Categories])
                      ELSE evs

RECURSIVE FetchAll(_)
\* the list the whole loop returns for a sequence of items
FetchAll(its) ==
    IF its = <<>> THEN <<>>
    ELSE FetchOne(FetchAll(SubSeq(its, 1, Len(its) - 1)), its[Len(its)])

-----------------------------------------------------------------------------
(* build_report: holiday adjustment *)

\* a holiday loop that takes the end date as covered too
HolidayLoopRunsInclusive(current_date, end_date) == current_date <= end_date

\* while current_date < end_date
HolidayLoopRuns(current_date, end_date) == current_date < end_date

RECURSIVE SumDailyHours(_, _)
\* the hours the inner while loop adds for the dates current_date..end_date-1
SumDailyHours(current_date, end_date) ==
    IF ~HolidayLoopRuns(current_date, end_date) THEN 0
    ELSE WholeHours(DAILY_WORK_HOURS[Weekday(current_date)])
         + SumDailyHours(current_date + 1, end_date)

\* the dates the inner while loop adds for one all-day holiday
HolidayDatesOf(event) ==
    {current_date \in Date(event.start)..Date(event.end) :
        HolidayLoopRuns(current_date, Date(event.end))}

RECURSIVE HolidayDates(_)
HolidayDates(evs) ==
    IF evs = <<>> THEN {}
    ELSE LET event == Head(evs)
         IN  (IF is_all_day_holiday(event) THEN HolidayDatesOf(event) ELSE {})
             \cup HolidayDates(Tail(evs))

RECURSIVE HolidayHoursReduction(_)
HolidayHoursReduction(evs) ==
    IF evs = <<>> THEN 0
    ELSE LET event == Head(evs)
         IN  (IF is_all_day_holiday(event)
              THEN SumDailyHours(Date(event.start), Date(event.end))
              ELSE 0)
             + HolidayHoursReduction(Tail(evs))

\* event_date not in holiday_dates
KeepEvent(event, hd) == Date(event.start) \notin hd

RECURSIVE FilterOnePass(_, _)
\* a filter that runs inside the holiday loop, so that an event is tested
\* against the holidays seen so far only
FilterOnePass(evs, n) ==
    IF n = 0 THEN <<>>
    ELSE FilterOnePass(evs, n - 1)
         \o (IF KeepEvent(evs[n], HolidayDates(SubSeq(evs, 1, n)))
             THEN <<evs[n]>> ELSE <<>>)

NonHolidayEventsOnePass(evs, hd) == FilterOnePass(evs, Len(evs))

\* the second loop over events, run with the completed holiday_dates
NonHolidayEvents(evs, hd) == SelectSeq(evs, LAMBDA event : KeepEvent(event, hd))

-----------------------------------------------------------------------------
(* build_report: raw per-category durations *)

RECURSIVE SumDurations(_, _)
SumDurations(evs, cat) ==
    IF evs = <<>> THEN 0
    ELSE (IF categorize_event(Head(evs).categories) = cat
          THEN Head(evs).duration_hours ELSE 0)
         + SumDurations(Tail(evs), cat)

\* the defaultdict after the accumulation loop: an entry per category seen
Durations(nhe) ==
    [cat \in {categorize_event(nhe[i].categories) : i \in DOMAIN nhe} |->
        SumDurations(nhe, cat)]

RECURSIVE SumValues(_)
\* sum(durations.values())
SumValues(f) ==
    IF DOMAIN f = {} THEN 0
    ELSE LET k == CHOOSE x \in DOMAIN f : TRUE
         IN  f[k] + SumValues([x \in DOMAIN f \ {k} |-> f[x]])

-----------------------------------------------------------------------------
(* build_report: busy time as the union of the clipped intervals per day *)

RECURSIVE ClipLoop(_, _, _, _)
\* the <<date, interval_start, interval_end>> one event appends, in date order
ClipLoop(current_date, last_date, ev, hd) ==
    IF ~(current_date <= last_date) THEN <<>>
    ELSE IF current_date \in hd
         THEN ClipLoop(current_date + 1, last_date, ev, hd)
         ELSE LET interval_start == Max(ev.start, WorkStart(current_date))
                  interval_end == Min(ev.end, WorkEnd(current_date))
              IN  (IF DAILY_WORK_HOURS[Weekday(current_date)] > 0
                      /\ interval_start < interval_end
                   THEN <<(<<current_date, interval_start, interval_end>>)>>
                   ELSE <<>>)
                  \o ClipLoop(current_date + 1, last_date, ev, hd)

RECURSIVE AllClips(_, _)
\* every append to intervals_by_day, in the order the loops make them
AllClips(nhe, hd) ==
    IF nhe = <<>> THEN <<>>
    ELSE ClipLoop(Date(Head(nhe).start), Date(Head(nhe).end), Head(nhe), hd)
         \o AllClips(Tail(nhe), hd)

RECURSIVE ClipsOfDay(_, _)
ClipsOfDay(clips, d) ==
    IF clips = <<>> THEN <<>>
    ELSE (IF Head(clips)[1] = d
          THEN <<(<<Head(clips)[2], Head(clips)[3]>>)>> ELSE <<>>)
         \o ClipsOfDay(Tail(clips), d)

\* the defaultdict(list): a key per date that received an interval
IntervalsByDay(nhe, hd) ==
    LET clips == AllClips(nhe, hd)
    IN  [d \in {clips[i][1] : i \in DOMAIN clips} |-> ClipsOfDay(clips, d)]

RECURSIVE InsertByStart(_, _)
\* iv placed after every interval of the sorted list that starts no later
InsertByStart(sorted, iv) ==
    IF sorted = <<>> THEN <<iv>>
    ELSE IF Head(sorted)[1] <= iv[1]
         THEN <<Head(sorted)>> \o InsertByStart(Tail(sorted), iv)
         ELSE <<iv>> \o sorted

\* a merge that takes the intervals in the order they were appended
SortByStartOmitted(day_intervals) == day_intervals

RECURSIVE SortByStart(_)
\* day_intervals.sort(key=lambda iv: iv[0]), a stable sort
SortByStart(day_intervals) ==
    IF day_intervals = <<>> THEN <<>>
    ELSE InsertByStart(
             SortByStart(SubSeq(day_intervals, 1, Len(day_intervals) - 1)),
             day_intervals[Len(day_intervals)])

\* an extension of the last merged interval that forgets its own end
ExtendEndToNext(last_end, iv_end) == iv_end

\* merged[-1][1] = max(merged[-1][1], iv[1])
ExtendEnd(last_end, iv_end) == Max(last_end, iv_end)

\* not merged or iv[0] > merged[-1][1]
StartsNewAlways(merged, iv) == TRUE

StartsNew(merged, iv) == merged = <<>> \/ iv[1] > merged[Len(merged)][2]

RECURSIVE MergeLoop(_, _)
\* the merged list after the loop has consumed the sorted intervals `rest`
MergeLoop(merged, rest) ==
    IF rest = <<>> THEN merged
    ELSE LET iv == Head(rest)
             n == Len(merged)
         IN  IF StartsNew(merged, iv)
             THEN MergeLoop(Append(merged, iv), Tail(rest))
             ELSE MergeLoop(
                      [merged EXCEPT ![n] = <<merged[n][1],
                                              ExtendEnd(merged[n][2], iv[2])>>],
                      Tail(rest))

Merged(day_intervals) == MergeLoop(<<>>, SortByStart(day_intervals))

RECURSIVE SumIntervals(_)
\* the sum of (iv[1] - iv[0]).total_seconds() / 3600.0 over a list
SumIntervals(ivs) ==
    IF ivs = <<>> THEN 0
    ELSE HoursBetween(Head(ivs)[1], Head(ivs)[2]) + SumIntervals(Tail(ivs))

RECURSIVE BusyHoursTotal(_)
\* the loop over intervals_by_day.values()
BusyHoursTotal(ibd) ==
    IF DOMAIN ibd = {} THEN 0
    ELSE LET d == CHOOSE x \in DOMAIN ibd : TRUE
         IN  SumIntervals(Merged(ibd[d]))
             + BusyHoursTotal([x \in DOMAIN ibd \ {d} |-> ibd[x]])

-----------------------------------------------------------------------------
(* build_report: totals and the Warning column *)

AdjustedTotalWorkHours(reduction) == WholeHours(TOTAL_WORK_HOURS) - reduction

\* a free time without the floor
FreeTimeUnclamped(adjusted, busy) == adjusted - busy

\* max(0.0, adjusted_total_work_hours - busy_hours_total)
FreeTime(adjusted, busy) == Max(0, adjusted - busy)

Budget(mn, mx, wn) == [min |-> mn, max |-> mx, warn |-> wn]

\* BUDGETS, in hundredths of an hour
BUDGETS ==
    [cat \in {"Focus Time", "Collaboration", "Communication", "Work Meeting",
              "Unavailable"} |->
        CASE cat = "Focus Time" ->
                 Budget(WholeHours(12), WholeHours(15), WholeHours(14))
          [] cat = "Collaboration" ->
                 Budget(WholeHours(4), WholeHours(8), WholeHours(6))
          [] cat = "Communication" ->
                 Budget(WholeHours(0), WholeHours(8), WholeHours(6))
          [] cat = "Work Meeting" ->
                 Budget(WholeHours(0), WholeHours(12), WholeHours(10))
          [] cat = "Unavailable" ->
                 Budget(WholeHours(0), WholeHours(6), WholeHours(5))]

\* a status chain that tests the minimum before the warning level
StatusMinFirst(budget, hrs) ==
    IF hrs > budget.max THEN "Exceeded"
    ELSE IF hrs < budget.min THEN "Below min"
    ELSE IF hrs > budget.warn THEN "Warning"
    ELSE ""

\* a status chain whose maximum is already exceeded when it is reached
StatusMaxInclusive(budget, hrs) ==
    IF hrs >= budget.max THEN "Exceeded"
    ELSE IF hrs > budget.warn THEN "Warning"
    ELSE IF hrs < budget.min THEN "Below min"
    ELSE ""

\* the if/elif chain on a configured budget
Status(budget, hrs) ==
    IF hrs > budget.max THEN "Exceeded"
    ELSE IF hrs > budget.warn THEN "Warning"
    ELSE IF hrs < budget.min THEN "Below min"
    ELSE ""

\* warn_msg of the row of `cat`; BUDGETS.get(cat) is None without an entry
WarnMsg(bud, cat, hrs) ==
    IF cat \in DOMAIN bud THEN Status(bud[cat], hrs) ELSE ""

WarnMsgs(bud, dur) == [cat \in DOMAIN dur |-> WarnMsg(bud, cat, dur[cat])]

\* zero rows that leave the Warning column empty
ZeroCategoriesNoStatus(bud, dur) == [cat \in DOMAIN bud \ DOMAIN dur |-> ""]

\* the rows of the budgeted categories that are not in durations
ZeroCategories(bud, dur) ==
    [cat \in DOMAIN bud \ DOMAIN dur |->
        IF bud[cat].min # 0 THEN "Below min" ELSE ""]

-----------------------------------------------------------------------------
(* The report run: the fetch loop, then build_report *)

Item(s, e, label, busy, cancelled) ==
    [Start |-> s, End |-> e, Categories |-> label, BusyStatus |-> busy,
     IsCancelled |-> cancelled]

\* olBusy, the value an item has unless it is marked otherwise
Meeting(s, e, label) == Item(s, e, label, 2, FALSE)

NoLabel == <<>>
FocusLabel == <<"Focus Time">>
FocusExtraLabel == <<"Focus Time", ",", " ", "Extra">>
UnavailableLabel == <<" ", "Unavailable">>
UnknownLabel == <<"SomeUnknownTag", ",", HOLIDAY>>
HolidayLabel == <<HOLIDAY>>

\* the calendar items a run may meet; dates 0..6 are Monday..Sunday of the
\* week, 7 and 8 the Monday and Tuesday after it
ItemSet ==
    {   \* all-day holidays: Monday; Tuesday; Monday and Tuesday, marked
        \* Free; Friday to Sunday; Monday to the Monday after
        Meeting(At(0, 0, 0), At(1, 0, 0), HolidayLabel),
        Meeting(At(1, 0, 0), At(2, 0, 0), HolidayLabel),
        Item(At(0, 0, 0), At(2, 0, 0), HolidayLabel, 0, FALSE),
        Meeting(At(4, 0, 0), At(7, 0, 0), HolidayLabel),
        Meeting(At(0, 0, 0), At(8, 0, 0), HolidayLabel),
        \* holiday-labelled items that are not all-day holidays
        Meeting(At(0, 0, 30), At(1, 0, 30), HolidayLabel),
        Meeting(At(1, 9, 0), At(1, 10, 0), HolidayLabel),
        Meeting(At(5, 10, 0), At(5, 11, 0), HolidayLabel),
        Meeting(At(1, 11, 0), At(1, 10, 0), HolidayLabel),
        \* meetings
        Meeting(At(0, 9, 0), At(0, 10, 0), FocusLabel),
        Meeting(At(0, 9, 30), At(0, 10, 30), NoLabel),
        Meeting(At(1, 10, 0), At(1, 11, 0), FocusExtraLabel),
        Meeting(At(1, 10, 30), At(1, 11, 30), UnknownLabel),
        Meeting(At(1, 11, 0), At(1, 12, 0), FocusLabel),
        \* Monday afternoon to Tuesday morning; the whole week and beyond
        Meeting(At(0, 16, 0), At(1, 10, 0), UnavailableLabel),
        Meeting(At(0, 0, 0), At(8, 0, 0), UnavailableLabel),
        \* items the loop drops: end before start, end equal to start,
        \* weekend only, marked Free, cancelled
        Meeting(At(0, 10, 0), At(0, 9, 0), FocusLabel),
        Meeting(At(2, 9, 0), At(2, 9, 0), NoLabel),
        Meeting(At(5, 10, 0), At(5, 11, 0), FocusLabel),
        Item(At(0, 9, 0), At(0, 10, 0), FocusLabel, 0, FALSE),
        Item(At(0, 9, 0), At(0, 10, 0), FocusLabel, 2, TRUE) }

\* the empty dict / empty list a local holds before it is assigned
Empty == <<>>

Init ==
    /\ pc = "fetch"
    /\ items = <<>>
    /\ events = <<>>
    /\ budgets = BUDGETS
    /\ holiday_dates = {}
    /\ holiday_hours_reduction = 0
    /\ non_holiday_events = <<>>
    /\ durations = Empty
    /\ intervals_by_day = Empty
    /\ busy_hours_total = 0
    /\ adjusted_total_work_hours = 0
    /\ free_time = 0
    /\ warn_msg = Empty
    /\ zero_categories = Empty
    /\ output = ""
    /\ start_pt = 0
    /\ end_pt = 0
    /\ work_hours_duration = 0
    /\ categories_str = <<>>
    /\ category = ""
    /\ is_holiday = FALSE

\* one iteration of `for item in filtered_items`
FetchItem ==
    /\ pc = "fetch"
    /\ Len(items) < MaxItems
    /\ \E item \in ItemSet :
          /\ items' = Append(items, item)
          /\ events' = FetchOne(events, item)
    /\ UNCHANGED <<pc, budgets, holiday_dates, holiday_hours_reduction,
                   non_holiday_events, durations, intervals_by_day,
                   busy_hours_total, adjusted_total_work_hours, free_time,
                   warn_msg, zero_categories, output, start_pt, end_pt,
                   work_hours_duration,
                   categories_str, category, is_holiday>>

\* a test for a missing list, which an empty list passes
NoEventsIsNone(evs) == FALSE

\* if not events
NoEvents(evs) == evs = <<>>

\* build_report(events, ...), called once the loop has ended
BuildReport ==
    /\ pc = "fetch"
    /\ pc' = "done"
    /\ IF NoEvents(events)
       THEN /\ output' = "notice"
            /\ UNCHANGED <<holiday_dates, holiday_hours_reduction,
                           non_holiday_events, durations, intervals_by_day,
                           busy_hours_total, adjusted_total_work_hours,
                           free_time, warn_msg, zero_categories>>
       ELSE /\ holiday_dates' = HolidayDates(events)
            /\ holiday_hours_reduction' = HolidayHoursReduction(events)
            /\ non_holiday_events' = NonHolidayEvents(events, holiday_dates')
            /\ durations' = Durations(non_holiday_events')
            /\ intervals_by_day' =
                   IntervalsByDay(non_holiday_events', holiday_dates')
            /\ busy_hours_total' = BusyHoursTotal(intervals_by_day')
            /\ adjusted_total_work_hours' =
                   AdjustedTotalWorkHours(holiday_hours_reduction')
            /\ free_time' =
                   FreeTime(adjusted_total_work_hours', busy_hours_total')
            /\ warn_msg' = WarnMsgs(budgets, durations')
            /\ zero_categories' = ZeroCategories(budgets, durations')
            /\ output' = "report"
    /\ UNCHANGED <<items, events, budgets, start_pt, end_pt,
                   work_hours_duration,
                   categories_str, category, is_holiday>>

Next == FetchItem \/ BuildReport

Spec == Init /\ [][Next]_vars

-----------------------------------------------------------------------------
(* calculate_work_hours_overlap on its own *)

\* every tick of the dates 0..MaxDate
OverlapTimes == 0..(At(MaxDate + 1, 0, 0) - 1)

InitOverlap ==
    /\ pc = "overlap"
    /\ start_pt \in OverlapTimes
    /\ end_pt \in OverlapTimes
    /\ work_hours_duration = 0
    /\ categories_str = <<>>
    /\ category = ""
    /\ is_holiday = FALSE
    /\ items = <<>>
    /\ events = <<>>
    /\ budgets = BUDGETS
    /\ holiday_dates = {}
    /\ holiday_hours_reduction = 0
    /\ non_holiday_events = <<>>
    /\ durations = Empty
    /\ intervals_by_day = Empty
    /\ busy_hours_total = 0
    /\ adjusted_total_work_hours = 0
    /\ free_time = 0
    /\ warn_msg = Empty
    /\ zero_categories = Empty
    /\ output = ""

\* work_hours_duration = self.calculate_work_hours_overlap(start_pt, end_pt)
CalcOverlap ==
    /\ pc = "overlap"
    /\ pc' = "overlap_done"
    /\ work_hours_duration' = calculate_work_hours_overlap(start_pt, end_pt)
    /\ UNCHANGED <<items, events, budgets, holiday_dates,
                   holiday_hours_reduction, non_holiday_events, durations,
                   intervals_by_day, busy_hours_total,
                   adjusted_total_work_hours, free_time, warn_msg,
                   zero_categories, output, start_pt, end_pt,
                   categories_str, category, is_holiday>>

NextOverlap == CalcOverlap

SpecOverlap == InitOverlap /\ [][NextOverlap]_vars

-----------------------------------------------------------------------------
(* The merge step on its own *)

\* the dates whose interval lists are explored: a Monday and a Tuesday
MergeDates == {0, 1}

\* the clipped intervals a date can hold: start < end, inside its work window
DayIntervals(d) ==
    {<<WorkStart(d) + p[1], WorkStart(d) + p[2]>> :
        p \in {q \in (0..MaxOffset) \X (0..MaxOffset) : q[1] < q[2]}}

\* the lists of the two dates, MaxIntervals intervals in all
MergeLists ==
    UNION {[1..k[1] -> DayIntervals(0)] \X [1..k[2] -> DayIntervals(1)] :
              k \in {j \in (0..MaxIntervals) \X (0..MaxIntervals) :
                        j[1] + j[2] <= MaxIntervals}}

\* like the defaultdict, a date has a key only when it has an interval
MergeInputs ==
    {[d \in {x \in MergeDates : l[x + 1] # <<>>} |-> l[d + 1]] : l \in MergeLists}

InitMerge ==
    /\ pc = "merge"
    /\ intervals_by_day \in MergeInputs
    /\ busy_hours_total = 0
    /\ items = <<>>
    /\ events = <<>>
    /\ budgets = BUDGETS
    /\ holiday_dates = {}
    /\ holiday_hours_reduction = 0
    /\ non_holiday_events = <<>>
    /\ durations = Empty
    /\ adjusted_total_work_hours = 0
    /\ free_time = 0
    /\ warn_msg = Empty
    /\ zero_categories = Empty
    /\ output = ""
    /\ start_pt = 0
    /\ end_pt = 0
    /\ work_hours_duration = 0
    /\ categories_str = <<>>
    /\ category = ""
    /\ is_holiday = FALSE

\* the loop `for day_intervals in intervals_by_day.values()`
MergeDays ==
    /\ pc = "merge"
    /\ pc' = "merge_done"
    /\ busy_hours_total' = BusyHoursTotal(intervals_by_day)
    /\ UNCHANGED <<items, events, budgets, holiday_dates,
                   holiday_hours_reduction, non_holiday_events, durations,
                   intervals_by_day, adjusted_total_work_hours, free_time,
                   warn_msg, zero_categories, output, start_pt, end_pt,
                   work_hours_duration,
                   categories_str, category, is_holiday>>

NextMerge == MergeDays

SpecMerge == InitMerge /\ [][NextMerge]_vars

-----------------------------------------------------------------------------
(* The Warning column on its own *)

\* every budget over the levels 0..MaxLevel, ordered or not
ArbitraryBudgets ==
    {Budget(mn, mx, wn) : mn \in 0..MaxLevel, mx \in 0..MaxLevel,
                          wn \in 0..MaxLevel}

\* the configured table, and tables that give Focus Time an arbitrary budget
BudgetTables ==
    {BUDGETS} \cup {[cat \in {"Focus Time"} |-> b] : b \in ArbitraryBudgets}

\* accumulated hours around the arbitrary levels and around the configured
\* Focus Time levels 12, 14 and 15
HourValues ==
    (0..(MaxLevel + 1)) \cup (1199..1201) \cup (1399..1401) \cup (1499..1501)

\* one accumulated category: Focus Time (budgeted in every table),
\* Collaboration (budgeted in the configured table only) or
\* Holiday/Vacation (never budgeted)
DurationTables ==
    {[cat \in {c} |-> h] :
        c \in {"Focus Time", "Collaboration", HOLIDAY}, h \in HourValues}

InitStatus ==
    /\ pc = "rows"
    /\ budgets \in BudgetTables
    /\ durations \in DurationTables
    /\ warn_msg = Empty
    /\ zero_categories = Empty
    /\ items = <<>>
    /\ events = <<>>
    /\ holiday_dates = {}
    /\ holiday_hours_reduction = 0
    /\ non_holiday_events = <<>>
    /\ intervals_by_day = Empty
    /\ busy_hours_total = 0
    /\ adjusted_total_work_hours = 0
    /\ free_time = 0
    /\ output = ""
    /\ start_pt = 0
    /\ end_pt = 0
    /\ work_hours_duration = 0
    /\ categories_str = <<>>
    /\ category = ""
    /\ is_holiday = FALSE

\* the loops that print the category rows
PrintRows ==
    /\ pc = "rows"
    /\ pc' = "rows_done"
    /\ warn_msg' = WarnMsgs(budgets, durations)
    /\ zero_categories' = ZeroCategories(budgets, durations)
    /\ UNCHANGED <<items, events, budgets, holiday_dates,
                   holiday_hours_reduction, non_holiday_events, durations,
                   intervals_by_day, busy_hours_total,
                   adjusted_total_work_hours, free_time, output, start_pt,
                   end_pt, work_hours_duration,
                   categories_str, category, is_holiday>>

NextStatus == PrintRows

SpecStatus == InitStatus /\ [][NextStatus]_vars

-----------------------------------------------------------------------------
(* The label operators on their own *)

\* the unused locals of the report run
ReportIdle ==
    /\ items = <<>>
    /\ events = <<>>
    /\ budgets = BUDGETS
    /\ holiday_dates = {}
    /\ holiday_hours_reduction = 0
    /\ non_holiday_events = <<>>
    /\ durations = Empty
    /\ intervals_by_day = Empty
    /\ busy_hours_total = 0
    /\ adjusted_total_work_hours = 0
    /\ free_time = 0
    /\ warn_msg = Empty
    /\ zero_categories = Empty
    /\ output = ""
    /\ work_hours_duration = 0

\* every label of at most MaxLabelLen atoms
LabelsOver(alphabet) == UNION {[1..n -> alphabet] : n \in 0..MaxLabelLen}

CategoryAlphabet ==
    {"Focus Time", HOLIDAY, "SomeUnknownTag", "Other", "Extra", ",", " "}

InitCategorize ==
    /\ pc = "label"
    /\ categories_str \in LabelsOver(CategoryAlphabet)
    /\ category = ""
    /\ is_holiday = FALSE
    /\ start_pt = 0
    /\ end_pt = 0
    /\ ReportIdle

\* category = categorize_event(ev.get('categories', ''))
Categorize ==
    /\ pc = "label"
    /\ pc' = "categorized"
    /\ category' = categorize_event(categories_str)
    /\ UNCHANGED <<items, events, budgets, holiday_dates,
                   holiday_hours_reduction, non_holiday_events, durations,
                   intervals_by_day, busy_hours_total,
                   adjusted_total_work_hours, free_time, warn_msg,
                   zero_categories, output, start_pt, end_pt,
                   work_hours_duration, categories_str, is_holiday>>

NextCategorize == Categorize

SpecCategorize == InitCategorize /\ [][NextCategorize]_vars

HolidayAlphabet == {HOLIDAY, "Other", ",", " "}

\* midnight, half past midnight and half past eleven at night of each date
HolidayTimes ==
    UNION {{At(d, 0, 0), At(d, 0, 30), At(d, 23, 30)} : d \in 0..MaxHolidayDate}

InitHoliday ==
    /\ pc = "event"
    /\ categories_str \in LabelsOver(HolidayAlphabet)
    /\ start_pt \in HolidayTimes
    /\ end_pt \in HolidayTimes
    /\ category = ""
    /\ is_holiday = FALSE
    /\ ReportIdle

\* reporter.is_all_day_holiday(event)
CheckHoliday ==
    /\ pc = "event"
    /\ pc' = "holiday_checked"
    /\ is_holiday' =
           is_all_day_holiday(
               [start |-> start_pt, end |-> end_pt,
                duration_hours |->
                    calculate_work_hours_overlap(start_pt, end_pt),
                categories |-> categories_str])
    /\ UNCHANGED <<items, events, budgets, holiday_dates,
                   holiday_hours_reduction, non_holiday_events, durations,
                   intervals_by_day, busy_hours_total,
                   adjusted_total_work_hours, free_time, warn_msg,
                   zero_categories, output, start_pt, end_pt,
                   work_hours_duration, categories_str, category>>

NextHoliday == CheckHoliday

SpecHoliday == InitHoliday /\ [][NextHoliday]_vars

-----------------------------------------------------------------------------
(* Properties *)

\* the run has ended with a printed report
Reported == pc = "done" /\ output = "report"

\* the ticks [s, e) of one interval
Ticks(s, e) == s..(e - 1)

\* the length, in hours, of the set-union of the intervals of a list
UnionHours(day_intervals) ==
    50 * Cardinality(UNION {Ticks(day_intervals[i][1], day_intervals[i][2]) :
                               i \in DOMAIN day_intervals})

RECURSIVE SumUnionHours(_, _)
SumUnionHours(ibd, dates) ==
    IF dates = {} THEN 0
    ELSE LET d == CHOOSE x \in dates : TRUE
         IN  UnionHours(ibd[d]) + SumUnionHours(ibd, dates \ {d})

NineToTenThirty ==
    <<(<<At(0, 9, 0), At(0, 10, 0)>>), (<<At(0, 9, 30), At(0, 10, 30)>>)>>

\* C1: the busy hours the merge step adds for a date are the length of the
\* set-union of that date's clipped intervals, and busy_hours_total is the sum
\* of these lengths over the dates; 09:00-10:00 with 09:30-10:30 is 1.5 h busy
\* against a raw sum of 2.0 h.
C1_BusyIsUnionLength ==
    pc = "merge_done" =>
        /\ busy_hours_total =
               SumUnionHours(intervals_by_day, DOMAIN intervals_by_day)
        /\ \A d \in DOMAIN intervals_by_day :
               SumIntervals(Merged(intervals_by_day[d]))
                   = UnionHours(intervals_by_day[d])
        /\ (DOMAIN intervals_by_day = {0}
               /\ intervals_by_day[0] = NineToTenThirty)
           => /\ busy_hours_total = 150
              /\ SumIntervals(intervals_by_day[0]) = 200

\* a Monday with one interval nested in another and a Tuesday interval
C1_Witness ==
    /\ pc = "merge_done"
    /\ DOMAIN intervals_by_day = {0, 1}
    /\ intervals_by_day[0] = <<(<<At(0, 9, 30), At(0, 10, 0)>>),
                               (<<At(0, 9, 0), At(0, 10, 30)>>)>>
    /\ intervals_by_day[1] = <<(<<At(1, 9, 0), At(1, 9, 30)>>)>>
    /\ busy_hours_total = 200

RECURSIVE HoursOfDates(_)
\* the work-hour durations of a set of dates, each date once
HoursOfDates(dates) ==
    IF dates = {} THEN 0
    ELSE LET d == CHOOSE x \in dates : TRUE
         IN  WholeHours(DAILY_WORK_HOURS[Weekday(d)])
             + HoursOfDates(dates \ {d})

\* C2: the holiday reduction counts each holiday date once: it is the sum of
\* the weekday work-hour durations over the distinct dates of holiday_dates.
C2_HolidayDateCountedOnce ==
    Reported => holiday_hours_reduction = HoursOfDates(holiday_dates)

\* C3: the adjusted total is the weekly total minus the holiday reduction,
\* floored at 0, so the computed and reported value is never negative.
C3_AdjustedTotalFloored ==
    Reported =>
        /\ adjusted_total_work_hours >= 0
        /\ adjusted_total_work_hours =
               Max(0, WholeHours(TOTAL_WORK_HOURS) - holiday_hours_reduction)

\* C4: free_time = max(0, adjusted total - busy total): never negative, 0 when
\* the busy total reaches the adjusted total, the exact difference otherwise.
C4_FreeTimeFloor ==
    Reported =>
        /\ free_time >= 0
        /\ busy_hours_total >= adjusted_total_work_hours => free_time = 0
        /\ busy_hours_total < adjusted_total_work_hours
           => free_time = adjusted_total_work_hours - busy_hours_total
        /\ free_time =
               Max(0, Max(0, WholeHours(TOTAL_WORK_HOURS)
                                 - holiday_hours_reduction)
                      - busy_hours_total)

\* an over-scheduled week, and (in another run) a week with time left
C4_Witness ==
    /\ Reported
    /\ busy_hours_total > adjusted_total_work_hours
    /\ adjusted_total_work_hours > 0
    /\ holiday_hours_reduction > 0
    /\ free_time = 0

RemoveAt(seq, i) == SubSeq(seq, 1, i - 1) \o SubSeq(seq, i + 1, Len(seq))

RECURSIVE SumUnfiltered(_, _)
\* the duration_hours of the events that start on no date of hd
SumUnfiltered(evs, hd) ==
    IF evs = <<>> THEN 0
    ELSE (IF Date(Head(evs).start) \in hd THEN 0 ELSE Head(evs).duration_hours)
         + SumUnfiltered(Tail(evs), hd)

\* the dates covered by some all-day holiday of the whole list
CoveredByHoliday(evs) ==
    UNION {HolidayDatesOf(evs[i]) :
              i \in {j \in DOMAIN evs : is_all_day_holiday(evs[j])}}

\* C5: an event that is not an all-day holiday and starts on a holiday date
\* adds nothing to the per-category hours and nothing to the busy total,
\* wherever it stands in the list (the report is the one of the list without
\* it); every event that starts on no holiday date is accounted.
C5_HolidayDateEventsExcluded ==
    Reported =>
        /\ \A i \in DOMAIN events :
              (~is_all_day_holiday(events[i])
                  /\ Date(events[i].start) \in CoveredByHoliday(events))
              => LET rest == RemoveAt(events, i)
                     hd == HolidayDates(rest)
                     nhe == NonHolidayEvents(rest, hd)
                 IN  /\ Durations(nhe) = durations
                     /\ BusyHoursTotal(IntervalsByDay(nhe, hd))
                            = busy_hours_total
        /\ \A i \in DOMAIN events :
              Date(events[i].start) \notin CoveredByHoliday(events)
              => /\ \E j \in DOMAIN non_holiday_events :
                        non_holiday_events[j] = events[i]
                 /\ categorize_event(events[i].categories) \in DOMAIN durations
                 /\ durations[categorize_event(events[i].categories)]
                        >= events[i].duration_hours
        /\ SumValues(durations)
               = SumUnfiltered(events, CoveredByHoliday(events))

\* a meeting with work hours that precedes, in the list, the holiday that
\* covers its date, next to a meeting on another date
C5_Witness ==
    /\ Reported
    /\ Len(events) = 3
    /\ ~is_all_day_holiday(events[1])
    /\ events[1].duration_hours > 0
    /\ is_all_day_holiday(events[2])
    /\ Date(events[1].start) \in HolidayDatesOf(events[2])
    /\ Date(events[3].start) \notin holiday_dates
    /\ events[3].duration_hours > 0
    /\ SumValues(durations) = events[3].duration_hours

\* the status the literal priority Exceeded > Warning > BelowMin > OK gives
PriorityStatus(b, h) ==
    CASE h > b.max -> "Exceeded"
      [] ~(h > b.max) /\ h > b.warn -> "Warning"
      [] ~(h > b.max) /\ ~(h > b.warn) /\ h < b.min -> "Below min"
      [] OTHER -> ""

\* C6: for any hours and any budget, ordered or not, the status is Exceeded
\* if hours > max, else Warning if hours > warn, else BelowMin if hours < min,
\* else empty; a category without a budget gets the empty status.
C6_StatusPriority ==
    pc = "rows_done" =>
        \A cat \in DOMAIN durations :
            /\ cat \in DOMAIN warn_msg
            /\ warn_msg[cat] =
                   IF cat \in DOMAIN budgets
                   THEN PriorityStatus(budgets[cat], durations[cat])
                   ELSE ""

\* hours above warn and below min at once, under a budget with min > warn
C6_Witness ==
    /\ pc = "rows_done"
    /\ "Focus Time" \in DOMAIN durations
    /\ budgets["Focus Time"].min > budgets["Focus Time"].warn
    /\ durations["Focus Time"] > budgets["Focus Time"].warn
    /\ durations["Focus Time"] < budgets["Focus Time"].min
    /\ durations["Focus Time"] <= budgets["Focus Time"].max
    /\ warn_msg["Focus Time"] = "Warning"

\* the Focus Time row of the configured budget {min 12, max 15, warn 14}
FocusRow(h) ==
    pc = "rows_done" /\ budgets = BUDGETS /\ DOMAIN durations = {"Focus Time"}
        /\ durations["Focus Time"] = h

\* C7 as stated: 14.00 OK, 14.01 Warning, 15.01 Exceeded, 11.99 BelowMin, and
\* exactly 12.00 and exactly 15.00 both OK.
C7_BoundariesAsStated ==
    /\ FocusRow(1400) => warn_msg["Focus Time"] = ""
    /\ FocusRow(1401) => warn_msg["Focus Time"] = "Warning"
    /\ FocusRow(1501) => warn_msg["Focus Time"] = "Exceeded"
    /\ FocusRow(1199) => warn_msg["Focus Time"] = "Below min"
    /\ FocusRow(1200) => warn_msg["Focus Time"] = ""
    /\ FocusRow(1500) => warn_msg["Focus Time"] = ""

\* C7 amended: 14.00 OK, 14.01 Warning, 15.01 Exceeded, 11.99 BelowMin,
\* exactly 12.00 OK, and exactly 15.00 Warning (above warn, not above max).
C7_Boundaries ==
    /\ FocusRow(1400) => warn_msg["Focus Time"] = ""
    /\ FocusRow(1401) => warn_msg["Focus Time"] = "Warning"
    /\ FocusRow(1501) => warn_msg["Focus Time"] = "Exceeded"
    /\ FocusRow(1199) => warn_msg["Focus Time"] = "Below min"
    /\ FocusRow(1200) => warn_msg["Focus Time"] = ""
    /\ FocusRow(1500) => warn_msg["Focus Time"] = "Warning"

C7_Witness == FocusRow(1500) /\ warn_msg["Focus Time"] = "Warning"

WellFormedItems(its) == SelectSeq(its, LAMBDA item : item.Start < item.End)

\* C9: an event with end <= start is skipped, and the rest is processed as
\* if it were absent: the accounted list, the category entries and the
\* totals are those of the run over the well-formed items.
C9_MalformedSkipped ==
    pc = "done" =>
        /\ \A i \in DOMAIN events : events[i].start < events[i].end
        /\ events = FetchAll(WellFormedItems(items))
        /\ output = "report" =>
              durations = Durations(NonHolidayEvents(
                              FetchAll(WellFormedItems(items)),
                              HolidayDates(FetchAll(WellFormedItems(items)))))

\* the ticks of [s, e) that lie in the work window of date d
WindowTicks(s, e, d) == Ticks(Max(s, WorkStart(d)), Min(e, WorkEnd(d)))

RECURSIVE SumWindowHours(_, _, _)
SumWindowHours(s, e, dates) ==
    IF dates = {} THEN 0
    ELSE LET d == CHOOSE x \in dates : TRUE
         IN  50 * Cardinality(WindowTicks(s, e, d))
             + SumWindowHours(s, e, dates \ {d})

\* the ticks of [s, e) that lie in some date's work window
WorkTicks(s, e) ==
    {t \in Ticks(s, e) :
        /\ DAILY_WORK_HOURS[Weekday(Date(t))] # 0
        /\ WorkStart(Date(t)) <= t
        /\ t < WorkEnd(Date(t))}

\* C10: duration_hours is the sum, over the dates from start.date to end.date
\* with a non-zero work duration, of the length of the event's intersection
\* with that date's work window; an event inside one window contributes its
\* own length, an event outside every window contributes 0.
C10_OverlapIsWindowSum ==
    pc = "overlap_done" =>
        /\ work_hours_duration =
               SumWindowHours(start_pt, end_pt,
                   {d \in Date(start_pt)..Date(end_pt) :
                       DAILY_WORK_HOURS[Weekday(d)] # 0})
        /\ work_hours_duration = 50 * Cardinality(WorkTicks(start_pt, end_pt))
        /\ (/\ start_pt < end_pt
            /\ DAILY_WORK_HOURS[Weekday(Date(start_pt))] # 0
            /\ WorkStart(Date(start_pt)) <= start_pt
            /\ end_pt <= WorkEnd(Date(start_pt)))
           => work_hours_duration = HoursBetween(start_pt, end_pt)
        /\ WorkTicks(start_pt, end_pt) = {} => work_hours_duration = 0

\* Monday 16:30 to Thursday 08:30: 0.5 + 8 + 8 + 0.5 hours
C10_Witness ==
    /\ pc = "overlap_done"
    /\ start_pt = At(0, 16, 30)
    /\ end_pt = At(3, 8, 30)
    /\ work_hours_duration = 1700

\* the dates d with start.date <= d < end.date
DatesBeforeEnd(ev) ==
    {d \in Date(ev.start)..Date(ev.end) : Date(ev.start) <= d /\ d < Date(ev.end)}

RECURSIVE SumHolidayHours(_)
\* over the all-day holidays of a list, the work hours of the dates each
\* covers, a date with duration 0 adding nothing
SumHolidayHours(evs) ==
    IF evs = <<>> THEN 0
    ELSE (IF is_all_day_holiday(Head(evs))
          THEN HoursOfDates({d \in DatesBeforeEnd(Head(evs)) :
                                DAILY_WORK_HOURS[Weekday(d)] # 0})
          ELSE 0)
         + SumHolidayHours(Tail(evs))

MondayHoliday ==
    [start |-> At(0, 0, 0), end |-> At(1, 0, 0), duration_hours |-> 800,
     categories |-> HolidayLabel]

\* C11: the holiday date set is the union, over the all-day holiday events,
\* of the dates d with start.date <= d < end.date, and holds no other date;
\* one holiday from Monday 00:00 to Tuesday 00:00 reduces the total by that
\* Monday's 8 hours, and a holiday date whose weekday has duration 0 adds 0.
C11_HolidayDatesEndExclusive ==
    Reported =>
        /\ holiday_dates =
               UNION {DatesBeforeEnd(events[i]) :
                         i \in {j \in DOMAIN events :
                                   is_all_day_holiday(events[j])}}
        /\ holiday_hours_reduction = SumHolidayHours(events)
        /\ events = <<MondayHoliday>>
           => /\ holiday_dates = {0}
              /\ holiday_hours_reduction = 800
              /\ adjusted_total_work_hours = 3400

\* a holiday from Friday 00:00 to the next Monday 00:00: Friday, Saturday and
\* Sunday are holiday dates, and only Friday's 9 hours are taken off
C11_Witness ==
    /\ Reported
    /\ Len(events) = 2
    /\ is_all_day_holiday(events[1])
    /\ ~is_all_day_holiday(events[2])
    /\ holiday_dates = {4, 5, 6}
    /\ holiday_hours_reduction = 900

\* the first comma-separated token of the label, trimmed, is the text `name`
FirstTokenIs(label, name) ==
    \E k \in 0..Len(label) :
        /\ \A j \in 1..k : label[j] # ","
        /\ k = Len(label) \/ label[k + 1] = ","
        /\ \E i \in 1..k :
              /\ label[i] = name
              /\ \A j \in (1..k) \ {i} : label[j] = " "

\* C12: an event is a full-day holiday exactly when the first trimmed token
\* of its label is the holiday category, its start and its end are at
\* midnight, and end - start is at least 24 hours; an empty label, or the
\* holiday category as a later token only, is no full-day holiday.
C12_FullDayHolidayIff ==
    pc = "holiday_checked" =>
        /\ is_holiday <=>
              /\ FirstTokenIs(categories_str, HOLIDAY)
              /\ start_pt % 48 = 0
              /\ end_pt % 48 = 0
              /\ end_pt - start_pt >= 48
        /\ categories_str = <<>> => ~is_holiday
        /\ categories_str = <<"Other", ",", HOLIDAY>> => ~is_holiday

\* a two-day holiday whose label has a blank and a second token
C12_Witness ==
    /\ pc = "holiday_checked"
    /\ categories_str = <<" ", HOLIDAY, ",", "Other">>
    /\ start_pt = At(0, 0, 0)
    /\ end_pt = At(2, 0, 0)
    /\ is_holiday

\* C13: categorize_event returns the first trimmed token of the label when
\* it is a known category and Work Meeting otherwise; every label gets one
\* category of the known set plus Work Meeting.
C13_CategorizeFirstToken ==
    pc = "categorized" =>
        /\ category \in KNOWN_CATEGORIES \cup {"Work Meeting"}
        /\ \A c \in KNOWN_CATEGORIES :
              FirstTokenIs(categories_str, c) => category = c
        /\ (\A c \in KNOWN_CATEGORIES : ~FirstTokenIs(categories_str, c))
           => category = "Work Meeting"
        /\ categories_str = <<>> => category = "Work Meeting"
        /\ categories_str = <<"SomeUnknownTag">> => category = "Work Meeting"
        /\ categories_str = <<"SomeUnknownTag", ",", " ", "Other">>
           => category = "Work Meeting"
        /\ categories_str = <<"Focus Time", ",", " ", "Extra">>
           => category = "Focus Time"

\* an unknown first token followed by a known one
C13_Witness ==
    /\ pc = "categorized"
    /\ categories_str = <<"SomeUnknownTag", ",", " ", "Focus Time">>
    /\ category = "Work Meeting"

\* no two intervals of the list share a tick (half-open intervals: one may
\* end exactly when another starts)
PairwiseDisjoint(ivs) ==
    \A i, j \in DOMAIN ivs :
        i # j => Ticks(ivs[i][1], ivs[i][2]) \cap Ticks(ivs[j][1], ivs[j][2]) = {}

\* no two intervals of the list share a tick or an end point
PairwiseSeparated(ivs) ==
    \A i, j \in DOMAIN ivs :
        i # j => ivs[i][2] < ivs[j][1] \/ ivs[j][2] < ivs[i][1]

SetOf(seq) == {seq[i] : i \in DOMAIN seq}

\* C14 as stated: merging pairwise disjoint intervals of one date, touching
\* ones included, gives the same set of intervals back, and a total equal to
\* the naive sum.
C14_DisjointMergeIsIdentity ==
    pc = "merge_done" =>
        \A d \in DOMAIN intervals_by_day :
            PairwiseDisjoint(intervals_by_day[d])
            => /\ SetOf(Merged(intervals_by_day[d]))
                      = SetOf(intervals_by_day[d])
               /\ SumIntervals(Merged(intervals_by_day[d]))
                      = SumIntervals(intervals_by_day[d])

\* C14 amended: merging pairwise disjoint intervals of one date gives a total
\* equal to the naive sum, and gives the same set of intervals back when no
\* interval ends exactly when another starts.
C14_SeparatedMergeIsIdentity ==
    pc = "merge_done" =>
        /\ \A d \in DOMAIN intervals_by_day :
              /\ PairwiseDisjoint(intervals_by_day[d])
                 => SumIntervals(Merged(intervals_by_day[d]))
                        = SumIntervals(intervals_by_day[d])
              /\ PairwiseSeparated(intervals_by_day[d])
                 => SetOf(Merged(intervals_by_day[d]))
                        = SetOf(intervals_by_day[d])
        /\ (\A d \in DOMAIN intervals_by_day :
               PairwiseDisjoint(intervals_by_day[d]))
           => busy_hours_total =
                  SumIntervals(IF 0 \in DOMAIN intervals_by_day
                               THEN intervals_by_day[0] ELSE <<>>)
                  + SumIntervals(IF 1 \in DOMAIN intervals_by_day
                                 THEN intervals_by_day[1] ELSE <<>>)

\* two separated Monday intervals, the later one appended first
C14_Witness ==
    /\ pc = "merge_done"
    /\ DOMAIN intervals_by_day = {0}
    /\ intervals_by_day[0] = <<(<<At(0, 10, 0), At(0, 10, 30)>>),
                               (<<At(0, 9, 0), At(0, 9, 30)>>)>>
    /\ busy_hours_total = 100

\* C15 as stated: an event with zero work-hours overlap that is not a full-day
\* holiday event is not in the fetched list, is not accounted, and creates no
\* category entry.
C15_ZeroOverlapExcluded ==
    pc = "done" =>
        /\ \A i \in DOMAIN events :
               (events[i].start < events[i].end
                /\ events[i].duration_hours = 0)
               => is_all_day_holiday(events[i])
        /\ \A i \in DOMAIN non_holiday_events :
               (non_holiday_events[i].start < non_holiday_events[i].end
                /\ non_holiday_events[i].duration_hours = 0)
               => /\ is_all_day_holiday(non_holiday_events[i])
                  /\ categorize_event(non_holiday_events[i].categories)
                         \notin DOMAIN durations

\* C16: a budgeted category without accumulated hours has a row with 0 hours
\* whose status is the one the status chain gives for 0 hours: "Below min"
\* when its min is greater than 0, empty otherwise.
C16_ZeroRowsPresent ==
    pc = "rows_done" =>
        /\ DOMAIN zero_categories = DOMAIN budgets \ DOMAIN durations
        /\ \A cat \in DOMAIN budgets :
              LET zero_status ==
                      IF budgets[cat].min > 0 THEN "Below min" ELSE ""
              IN  /\ cat \notin DOMAIN durations
                     => /\ cat \in DOMAIN zero_categories
                        /\ zero_categories[cat] = zero_status
                        /\ zero_categories[cat]
                               = PriorityStatus(budgets[cat], 0)
                  /\ (cat \in DOMAIN durations /\ durations[cat] = 0)
                     => /\ cat \in DOMAIN warn_msg
                        /\ warn_msg[cat] = zero_status

\* the configured table with hours in an unbudgeted category only: Focus Time
\* (min 12) gets "Below min", Unavailable (min 0) gets the empty status
C16_Witness ==
    /\ pc = "rows_done"
    /\ budgets = BUDGETS
    /\ DOMAIN durations = {HOLIDAY}
    /\ DOMAIN zero_categories = DOMAIN BUDGETS
    /\ zero_categories["Focus Time"] = "Below min"
    /\ zero_categories["Unavailable"] = ""

\* the work-window ticks of an event that lie on no holiday date
NonHolidayWorkTicks(ev, hd) ==
    {t \in WorkTicks(ev.start, ev.end) : Date(t) \notin hd}

\* C17 as stated: no work-window time on a holiday date is counted: the busy
\* total is the length of the union of the accounted events' work-window time
\* outside the holiday dates, and every accounted event contributes to its
\* category the length of its own work-window time outside the holiday dates.
C17_HolidayDateHoursExcluded ==
    Reported =>
        /\ busy_hours_total =
               50 * Cardinality(UNION {NonHolidayWorkTicks(
                                           non_holiday_events[i],
                                           holiday_dates) :
                                       i \in DOMAIN non_holiday_events})
        /\ \A i \in DOMAIN non_holiday_events :
               non_holiday_events[i].duration_hours =
                   50 * Cardinality(NonHolidayWorkTicks(non_holiday_events[i],
                                                        holiday_dates))

\* no two accounted events share a tick
NoTwoOverlap(nhe) ==
    \A i, j \in DOMAIN nhe :
        i # j => Ticks(nhe[i].start, nhe[i].end)
                     \cap Ticks(nhe[j].start, nhe[j].end) = {}

\* no accounted event has a holiday date among the dates it spans
NoneTouchesHoliday(nhe, hd) ==
    \A i \in DOMAIN nhe :
        (Date(nhe[i].start)..Date(nhe[i].end)) \cap hd = {}

\* C18: the busy total is never greater than the raw sum of the category
\* hours, the busy hours of a date never exceed that weekday's work hours,
\* and the two totals are equal when no two accounted events overlap and no
\* accounted event touches a holiday date.
C18_BusyAtMostRaw ==
    Reported =>
        /\ busy_hours_total <= SumValues(durations)
        /\ \A d \in DOMAIN intervals_by_day :
               SumIntervals(Merged(intervals_by_day[d]))
                   <= WholeHours(DAILY_WORK_HOURS[Weekday(d)])
        /\ (NoTwoOverlap(non_holiday_events)
            /\ NoneTouchesHoliday(non_holiday_events, holiday_dates))
           => busy_hours_total = SumValues(durations)

\* overlapping meetings: the union is positive and below the raw sum
C18_Witness ==
    /\ Reported
    /\ Len(non_holiday_events) >= 2
    /\ 0 < busy_hours_total
    /\ busy_hours_total < SumValues(durations)

=============================================================================
